---- MODULE Spec2Model ----
(***************************************************************************)
(* Model of BTreeIndex (badgerdb B+ tree index over an integer attribute). *)
(* The index file is a sequence of pages; a page is a block of machine     *)
(* words that the code views through a cast as a NonLeafNodeInt, a         *)
(* LeafNodeInt or the IndexMetaInfo header.  The model keeps the words, so *)
(* a page read through the wrong cast yields what the words hold.          *)
(***************************************************************************)
EXTENDS Integers, Sequences, FiniteSets, Bags, TLC

\* ---------------------------------------------------------------- bounds
\* Fanout of a leaf and of a non-leaf node (the program derives them from
\* the page size; the model keeps them small).
INTARRAYLEAFSIZE == 2
INTARRAYNONLEAFSIZE == 2
\* Number of insertEntry calls in one run.
MaxInserts == 5
\* Number of insertEntry calls in a run that only loads the index.
MaxLoad == 6
\* Number of tuples of a relation over which an index is built.
MaxTuples == 4
\* Number of insertEntry calls with a key in a run that also passes null keys.
MaxShort == 3

\* ------------------------------------------------------------- constants
INVALID_NUMBER == 0
INVALID_SLOT == 0
Sentinel == 0 - 1
INT_MIN == (0 - 2147483647) - 1
INT_MAX == 2147483647
headerPageNum == 1
\* Words of the header page: relation name, attrByteOffset, attrType.
RelationNameWord == 7103858
AttrByteOffset == 0
AttrTypeInteger == 0

Operator == {"LT", "LTE", "GTE", "GT"}

Max2(a, b) == IF a >= b THEN a ELSE b

\* A page holds the larger of the two node layouts (and the header).
PageWords == Max2(Max2(3 * INTARRAYLEAFSIZE + 1, 2 * INTARRAYNONLEAFSIZE + 2), 4)

\* A page as allocPage hands it out: a default-constructed, zero-filled Page.
ZeroPage == [w \in 0 .. PageWords - 1 |-> 0]

\* --------------------------------------------------------- node layouts
\* struct NonLeafNodeInt { int level; int keyArray[N]; PageId pageNoArray[N+1]; }
NLlevelW == 0
NLkeyW(i) == 1 + i
NLpnoW(i) == 1 + INTARRAYNONLEAFSIZE + i
\* struct LeafNodeInt { int keyArray[M]; RecordId ridArray[M]; PageId rightSibPageNo; }
\* RecordId is { page_number, slot_number }: two words.
LFkeyW(i) == i
LFridPageW(i) == INTARRAYLEAFSIZE + 2 * i
LFridSlotW(i) == INTARRAYLEAFSIZE + 2 * i + 1
LFsibW == 3 * INTARRAYLEAFSIZE
\* struct IndexMetaInfo { char relationName[]; int attrByteOffset; Datatype attrType; PageId rootPageNo; }
HDnameW == 0
HDoffsetW == 1
HDtypeW == 2
HDrootW == 3

LFrid(pg, i) == <<pg[LFridPageW(i)], pg[LFridSlotW(i)]>>

\* ------------------------------------------------------- buffer manager
\* m is the record [pages, pin, kind, dirty]: page contents and pin counts by
\* PageId, the struct each page was last initialised as ("header", "nonleaf",
\* "leaf", or "page" as allocPage hands it out), and the pages that the call
\* in progress has unpinned with dirty = true.
ValidPage(m, id) == id \in 1 .. Len(m.pages)

allocPage(m) ==
  [pages |-> Append(m.pages, ZeroPage), pin |-> Append(m.pin, 1),
   kind |-> Append(m.kind, "page"), dirty |-> m.dirty]

readPage(m, id) == [m EXCEPT !.pin[id] = @ + 1]

\* PageNotPinned (and an unknown page) is caught by every caller: no effect.
unPinPage(m, id, dirty) ==
  IF ValidPage(m, id) /\ m.pin[id] > 0
  THEN [m EXCEPT !.pin[id] = @ - 1, !.dirty = IF dirty THEN @ \cup {id} ELSE @]
  ELSE m

SetW(m, id, w, v) == [m EXCEPT !.pages[id][w] = v]

\* ------------------------------------------------- insertKeyInLeafNode
RECURSIVE LeafSearchFlipped(_, _, _)
\* The search with its key comparison turned around.
LeafSearchFlipped(pg, key, idx) ==
  IF idx < INTARRAYLEAFSIZE /\ pg[LFkeyW(idx)] # Sentinel /\ pg[LFkeyW(idx)] > key
  THEN LeafSearchFlipped(pg, key, idx + 1)
  ELSE idx

RECURSIVE LeafSearch(_, _, _)
\* for (idx = 0; idx < M && keyArray[idx] != -1 && keyArray[idx] < key; idx++);
LeafSearch(pg, key, idx) ==
  IF idx < INTARRAYLEAFSIZE /\ pg[LFkeyW(idx)] # Sentinel /\ pg[LFkeyW(idx)] < key
  THEN LeafSearch(pg, key, idx + 1)
  ELSE idx

RECURSIVE LeafShift(_, _, _, _, _)
\* for (; keyArray[idx] != -1; idx++) { swap in (newKey, newRid) }; then the
\* final store at the first sentinel slot.
LeafShift(m, id, idx, newKey, newRid) ==
  LET pg == m.pages[id]
      w  == [m EXCEPT !.pages[id][LFkeyW(idx)] = newKey,
                      !.pages[id][LFridPageW(idx)] = newRid[1],
                      !.pages[id][LFridSlotW(idx)] = newRid[2]]
  IN IF pg[LFkeyW(idx)] # Sentinel
     THEN LeafShift(w, id, idx + 1, pg[LFkeyW(idx)], LFrid(pg, idx))
     ELSE w

insertKeyInLeafNode(m, id, key, rid) ==
  IF m.pages[id][LFkeyW(INTARRAYLEAFSIZE - 1)] # Sentinel
  THEN [ok |-> FALSE, m |-> m]
  ELSE [ok |-> TRUE, m |-> LeafShift(m, id, LeafSearch(m.pages[id], key, 0), key, rid)]

\* ---------------------------------------------- insertKeyInNonLeafNode
RECURSIVE NonLeafSearch(_, _, _)
NonLeafSearch(pg, key, idx) ==
  IF idx < INTARRAYNONLEAFSIZE /\ pg[NLkeyW(idx)] # Sentinel /\ pg[NLkeyW(idx)] < key
  THEN NonLeafSearch(pg, key, idx + 1)
  ELSE idx

RECURSIVE NonLeafShift(_, _, _, _, _)
NonLeafShift(m, id, idx, newKey, newPageId) ==
  LET pg == m.pages[id]
      w  == [m EXCEPT !.pages[id][NLkeyW(idx)] = newKey,
                      !.pages[id][NLpnoW(idx + 1)] = newPageId]
  IN IF pg[NLkeyW(idx)] # Sentinel
     THEN NonLeafShift(w, id, idx + 1, pg[NLkeyW(idx)], pg[NLpnoW(idx + 1)])
     ELSE w

insertKeyInNonLeafNode(m, id, key, pageId) ==
  IF m.pages[id][NLkeyW(INTARRAYNONLEAFSIZE - 1)] # Sentinel
  THEN [ok |-> FALSE, m |-> m]
  ELSE [ok |-> TRUE,
        m |-> NonLeafShift(m, id, NonLeafSearch(m.pages[id], key, 0), key, pageId)]

\* ------------------------------------------------------- splitLeafNode
\* keyArray[i] = -1, ridArray[i] = {INVALID_NUMBER, INVALID_SLOT} for all i.
InitLeafPage(pg) ==
  [w \in 0 .. PageWords - 1 |->
     IF w < INTARRAYLEAFSIZE THEN Sentinel
     ELSE IF w < 3 * INTARRAYLEAFSIZE
          THEN (IF (w - INTARRAYLEAFSIZE) % 2 = 0 THEN INVALID_NUMBER ELSE INVALID_SLOT)
          ELSE pg[w]]

LeafMidIdx == (INTARRAYLEAFSIZE + 1) \div 2

RECURSIVE LeafCopyUpper(_, _, _, _)
\* for (i = midIdx; i < M; ++i) { new[i-mid] = data[i]; data->keyArray[i] = -1; }
LeafCopyUpper(m, dataId, newId, i) ==
  IF i < INTARRAYLEAFSIZE
  THEN LET d == m.pages[dataId]
           j == i - LeafMidIdx
       IN LeafCopyUpper(
            [m EXCEPT !.pages[newId][LFkeyW(j)] = d[LFkeyW(i)],
                      !.pages[newId][LFridPageW(j)] = d[LFridPageW(i)],
                      !.pages[newId][LFridSlotW(j)] = d[LFridSlotW(i)],
                      !.pages[dataId][LFkeyW(i)] = Sentinel],
            dataId, newId, i + 1)
  ELSE m

\* Which half receives the new pair: TRUE = the original (left) leaf.
SplitGoesLeft(intKey, firstRightKey) == intKey < firstRightKey

\* The new leaf is the page allocPage has just appended: initialise it.
NewLeaf(m) ==
  [m EXCEPT !.pages[Len(m.pages)] = InitLeafPage(@), !.kind[Len(m.pages)] = "leaf"]

\* A linking that hands the original leaf's first key upwards.
SplitLeafLinkLeftKey(m, dataId, pageId) ==
  [m |-> unPinPage([m EXCEPT !.pages[pageId][LFsibW] = m.pages[dataId][LFsibW],
                             !.pages[dataId][LFsibW] = pageId], pageId, TRUE),
   pageId |-> pageId,
   intKey |-> m.pages[dataId][LFkeyW(0)]]

\* A linking that points the new leaf back at the original one.
SplitLeafLinkBack(m, dataId, pageId) ==
  [m |-> unPinPage([m EXCEPT !.pages[pageId][LFsibW] = dataId,
                             !.pages[dataId][LFsibW] = pageId], pageId, TRUE),
   pageId |-> pageId,
   intKey |-> m.pages[pageId][LFkeyW(0)]]

\* newLeaf->rightSibPageNo = dataNode->rightSibPageNo; dataNode->rightSibPageNo
\* = pageId; intKey = newLeaf->keyArray[0]; unpin the new leaf.
SplitLeafLink(m, dataId, pageId) ==
  [m |-> unPinPage([m EXCEPT !.pages[pageId][LFsibW] = m.pages[dataId][LFsibW],
                             !.pages[dataId][LFsibW] = pageId], pageId, TRUE),
   pageId |-> pageId,
   intKey |-> m.pages[pageId][LFkeyW(0)]]

\* The insert into one of the two halves, then the linking.
SplitLeafInsert(m, dataId, pageId, intKey, rid) ==
  SplitLeafLink(
    insertKeyInLeafNode(m,
                        IF SplitGoesLeft(intKey, m.pages[pageId][LFkeyW(0)])
                        THEN dataId ELSE pageId,
                        intKey, rid).m,
    dataId, pageId)

\* [m, pageId, intKey]: the new leaf's PageId and the key copied upwards.
splitLeafNode(m, dataId, intKey, rid) ==
  SplitLeafInsert(
    LeafCopyUpper(NewLeaf(allocPage(m)), dataId, Len(m.pages) + 1, LeafMidIdx),
    dataId, Len(m.pages) + 1, intKey, rid)

\* ---------------------------------------------------- splitNonLeafNode
InitNonLeafPage(pg) ==
  [w \in 0 .. PageWords - 1 |->
     IF w >= 1 /\ w <= INTARRAYNONLEAFSIZE THEN Sentinel
     ELSE IF w > INTARRAYNONLEAFSIZE /\ w <= 2 * INTARRAYNONLEAFSIZE + 1
          THEN INVALID_NUMBER
          ELSE pg[w]]

NonLeafMidIdx == (INTARRAYNONLEAFSIZE + 1) \div 2

RECURSIVE SortedArrays(_, _, _, _, _, _, _, _)
\* The loop that builds keyArr / pageNoArr; src is the page the loop reads
\* (the code reads newNode, the page it has just initialised).
SortedArrays(src, intKey, pageId, i, j, prevKey, keyArr, pageNoArr) ==
  IF i < INTARRAYNONLEAFSIZE
  THEN IF prevKey <= intKey /\ intKey < src[NLkeyW(j)]
       THEN SortedArrays(src, intKey, pageId, i + 1, j, src[NLkeyW(j)],
                         [keyArr EXCEPT ![i] = intKey],
                         [pageNoArr EXCEPT ![i] = pageId])
       ELSE SortedArrays(src, intKey, pageId, i + 1, j + 1, src[NLkeyW(j)],
                         [keyArr EXCEPT ![i] = src[NLkeyW(j)]],
                         [pageNoArr EXCEPT ![i + 1] = src[NLpnoW(i + 1)]])
  ELSE IF i = j
       THEN [keyArr |-> [keyArr EXCEPT ![i] = intKey],
             pageNoArr |-> [pageNoArr EXCEPT ![i + 1] = pageId]]
       ELSE [keyArr |-> keyArr, pageNoArr |-> pageNoArr]

\* keyArr / pageNoArr of splitNonLeafNode, with pageNoArr[0] = src's first child.
SortedArraysOf(src, intKey, pageId) ==
  SortedArrays(src, intKey, pageId, 0, 0, Sentinel,
               [k \in 0 .. INTARRAYNONLEAFSIZE |-> 0],
               [k \in 0 .. INTARRAYNONLEAFSIZE + 1 |->
                  IF k = 0 THEN src[NLpnoW(0)] ELSE 0])

\* The page whose keys and child pointers feed the sorted arrays.
SplitSource(m, nodeId, newId) == m.pages[newId]

\* node after the split: pageNoArr[0], keys [0, mid) with their right children,
\* the rest invalidated.
SplitLeftHalf(old, arr) ==
  [w \in 0 .. PageWords - 1 |->
     IF w >= 1 /\ w <= INTARRAYNONLEAFSIZE
     THEN (IF w - 1 < NonLeafMidIdx THEN arr.keyArr[w - 1] ELSE Sentinel)
     ELSE IF w > INTARRAYNONLEAFSIZE /\ w <= 2 * INTARRAYNONLEAFSIZE + 1
          THEN (IF w - INTARRAYNONLEAFSIZE - 1 <= NonLeafMidIdx
                THEN arr.pageNoArr[w - INTARRAYNONLEAFSIZE - 1]
                ELSE INVALID_NUMBER)
          ELSE old[w]]

\* newNode after the split: keys (mid, N] with children (mid, N + 1], and
\* node's level.
SplitRightHalf(fresh, level, arr) ==
  [w \in 0 .. PageWords - 1 |->
     IF w = NLlevelW THEN level
     ELSE IF w >= 1 /\ w <= INTARRAYNONLEAFSIZE
     THEN (IF w + NonLeafMidIdx <= INTARRAYNONLEAFSIZE
           THEN arr.keyArr[w + NonLeafMidIdx] ELSE fresh[w])
     ELSE IF w > INTARRAYNONLEAFSIZE /\ w <= 2 * INTARRAYNONLEAFSIZE + 1
          THEN (IF w - INTARRAYNONLEAFSIZE + NonLeafMidIdx <= INTARRAYNONLEAFSIZE + 1
                THEN arr.pageNoArr[w - INTARRAYNONLEAFSIZE + NonLeafMidIdx]
                ELSE fresh[w])
          ELSE fresh[w]]

\* Both nodes written from the arrays, the new node unpinned, keyArr[mid]
\* handed upwards.
SplitNonLeafStore(m, nodeId, pageId_, arr) ==
  [m |-> unPinPage([m EXCEPT !.pages[nodeId] = SplitLeftHalf(@, arr),
                             !.pages[pageId_] =
                                SplitRightHalf(@, m.pages[nodeId][NLlevelW], arr)],
                   pageId_, TRUE),
   pageId |-> pageId_,
   intKey |-> arr.keyArr[NonLeafMidIdx]]

\* The new node is the page allocPage has just appended: initialise it.
NewNonLeaf(m) ==
  [m EXCEPT !.pages[Len(m.pages)] = InitNonLeafPage(@), !.kind[Len(m.pages)] = "nonleaf"]

SplitNonLeafArrays(m, nodeId, pageId_, intKey, pageId) ==
  SplitNonLeafStore(m, nodeId, pageId_,
                    SortedArraysOf(SplitSource(m, nodeId, pageId_), intKey, pageId))

\* [m, pageId, intKey]: the new node's PageId and the key moved upwards.
splitNonLeafNode(m, nodeId, intKey, pageId) ==
  SplitNonLeafArrays(NewNonLeaf(allocPage(m)), nodeId, Len(m.pages) + 1, intKey, pageId)

\* --------------------------------------------------------- insertEntry
\* RecordId of the n-th tuple handed to insertEntry.
RidOf(n) == <<n, 1>>

RECURSIVE UnpinPath(_, _)
\* while (!path.empty()) { unPinPage(path.top()); path.pop(); }
UnpinPath(m, path) ==
  IF path = <<>> THEN m
  ELSE UnpinPath(unPinPage(m, path[Len(path)], TRUE), SubSeq(path, 1, Len(path) - 1))

\* The test that sends descent into the "newly created root" branch.
IsNewRoot(pg, idx) == idx = 0

\* dataNode->keyArray[i] = leftDataNode->keyArray[i] = -1 for all i.
ClearLeafKeys(pg) ==
  [w \in 0 .. PageWords - 1 |-> IF w < INTARRAYLEAFSIZE THEN Sentinel ELSE pg[w]]

\* The idx == 0 branch once both leaves are allocated (right first): point
\* the node at them, clear their keys, unpin the left one.
NewRootLeaves(m, cur, intKey, pageIdRight, pageIdLeft) ==
  unPinPage([m EXCEPT !.pages[cur][NLkeyW(0)] = intKey,
                      !.pages[cur][NLpnoW(0)] = pageIdLeft,
                      !.pages[cur][NLpnoW(1)] = pageIdRight,
                      !.pages[pageIdRight] = ClearLeafKeys(@),
                      !.pages[pageIdLeft] = ClearLeafKeys(@),
                      !.kind[pageIdRight] = "leaf",
                      !.kind[pageIdLeft] = "leaf"],
            pageIdLeft, TRUE)

RECURSIVE Descend(_, _, _, _, _)
RECURSIVE DescendAt(_, _, _, _, _, _)
\* One round of the while (true) loop of insertEntry with idx computed.
DescendAt(m, cur, path, intKey, fuel, idx) ==
  IF IsNewRoot(m.pages[cur], idx)
  THEN [res |-> "ok",
        m |-> NewRootLeaves(allocPage(allocPage(m)), cur, intKey,
                            Len(m.pages) + 1, Len(m.pages) + 2),
        path |-> path, dataNode |-> Len(m.pages) + 1]
  ELSE IF ~ValidPage(m, m.pages[cur][NLpnoW(idx)])
  THEN [res |-> "InvalidPage", m |-> m, path |-> path, dataNode |-> 0]
  ELSE IF m.pages[cur][NLlevelW] = 1
  THEN [res |-> "ok", m |-> readPage(m, m.pages[cur][NLpnoW(idx)]),
        path |-> Append(path, m.pages[cur][NLpnoW(idx)]),
        dataNode |-> m.pages[cur][NLpnoW(idx)]]
  ELSE IF fuel = 0
  THEN [res |-> "Diverge", m |-> m, path |-> path, dataNode |-> 0]
  ELSE Descend(readPage(m, m.pages[cur][NLpnoW(idx)]), m.pages[cur][NLpnoW(idx)],
               Append(path, m.pages[cur][NLpnoW(idx)]), intKey, fuel - 1)

\* The while (true) loop of insertEntry.  cur is the page behind currNode.
\* fuel counts the pages not yet visited: the loop writes nothing before it
\* breaks, so visiting more nodes than there are pages means it never ends.
Descend(m, cur, path, intKey, fuel) ==
  DescendAt(m, cur, path, intKey, fuel, NonLeafSearch(m.pages[cur], intKey, 0))

RECURSIVE Propagate(_, _, _, _, _)
RECURSIVE PropagateUp(_, _, _)
\* After splitNonLeafNode (result s): unpin the split node, pop it, and go on
\* with the next parent, or stop with the path empty.
PropagateUp(s, p1, currPageId) ==
  IF p1 # <<>>
  THEN Propagate(readPage(unPinPage(s.m, currPageId, TRUE), p1[Len(p1)]), p1, p1[Len(p1)],
                 s.intKey, s.pageId)
  ELSE [m |-> unPinPage(s.m, currPageId, TRUE), path |-> p1, currPageId |-> currPageId,
        intKey |-> s.intKey, newPageId |-> s.pageId]

\* while (!insertKeyInNonLeafNode(currNode, intKey, newPageId)) { split; unpin;
\* pop; read the next parent or break }
Propagate(m, path, currPageId, intKey, newPageId) ==
  IF insertKeyInNonLeafNode(m, currPageId, intKey, newPageId).ok
  THEN [m |-> insertKeyInNonLeafNode(m, currPageId, intKey, newPageId).m,
        path |-> path, currPageId |-> currPageId,
        intKey |-> intKey, newPageId |-> newPageId]
  ELSE PropagateUp(splitNonLeafNode(m, currPageId, intKey, newPageId),
                   SubSeq(path, 1, Len(path) - 1), currPageId)

\* Level stored in a root created by root growth.
NewRootLevel == 0

\* The root page written by root growth; u is the result of Propagate.
NewRootPage(pg, u) ==
  [w \in 0 .. PageWords - 1 |->
     IF w = NLlevelW THEN NewRootLevel
     ELSE IF w = NLkeyW(0) THEN u.intKey
     ELSE IF w = NLpnoW(0) THEN u.currPageId
     ELSE IF w = NLpnoW(1) THEN u.newPageId
     ELSE InitNonLeafPage(pg)[w]]

\* A root growth that leaves rootPageNum at the old root.
GrowRootUnrecorded(m, u) ==
  [res |-> "ok",
   m |-> unPinPage(unPinPage([m EXCEPT !.pages[Len(m.pages)] = NewRootPage(@, u),
                                       !.kind[Len(m.pages)] = "nonleaf"],
                             u.newPageId, TRUE),
                   Len(m.pages), TRUE),
   root |-> u.currPageId]

\* Root growth once the root page is allocated (the last page of m).
GrowRoot(m, u) ==
  [res |-> "ok",
   m |-> unPinPage(unPinPage([m EXCEPT !.pages[Len(m.pages)] = NewRootPage(@, u),
                                       !.kind[Len(m.pages)] = "nonleaf"],
                             u.newPageId, TRUE),
                   Len(m.pages), TRUE),
   root |-> Len(m.pages)]

\* if (path.empty()) { new root } else { unpin the rest of the path }
AfterPropagate(u, root) ==
  IF u.path = <<>>
  THEN GrowRoot(allocPage(u.m), u)
  ELSE [res |-> "ok", m |-> UnpinPath(u.m, u.path), root |-> root]

\* After splitLeafNode (result s): path.pop(), read the parent, propagate.
AfterLeafSplit(s, p1, root) ==
  AfterPropagate(Propagate(readPage(s.m, p1[Len(p1)]), p1, p1[Len(p1)],
                           s.intKey, s.pageId),
                 root)

\* if (!insertKeyInLeafNode(...)) { split ... } else { unpin the path }
AfterLeafInsert(r, d, root, intKey, rid) ==
  IF r.ok
  THEN [res |-> "ok", m |-> UnpinPath(r.m, d.path), root |-> root]
  ELSE AfterLeafSplit(splitLeafNode(d.m, d.dataNode, intKey, rid),
                      SubSeq(d.path, 1, Len(d.path) - 1), root)

\* The part of insertEntry after descent; d is the result of Descend.
InsertAfterDescent(d, root, intKey, rid) ==
  IF d.res # "ok"
  THEN [res |-> d.res, m |-> d.m, root |-> root]
  ELSE AfterLeafInsert(insertKeyInLeafNode(d.m, d.dataNode, intKey, rid),
                       d, root, intKey, rid)

\* insertEntry as a function of the memory: [res, m, root].
insertEntry(m, root, intKey, rid) ==
  InsertAfterDescent(Descend(readPage(m, root), root, <<root>>, intKey, Len(m.pages)),
                     root, intKey, rid)

\* ----------------------------------------------------------- the scan
LowOk(op, key, lowVal) ==
  (op = "GT" /\ key > lowVal) \/ (op = "GTE" /\ key >= lowVal)

\* scanNext: "Skip entry if too small."
TooSmall(op, key, lowVal) ==
  (op = "GT" /\ key <= lowVal) \/ (op = "GTE" /\ key < lowVal)

\* scanNext: "Scan is complete if too big."
TooBig(op, key, highVal) ==
  (op = "LT" /\ key >= highVal) \/ (op = "LTE" /\ key > highVal)

RECURSIVE ScanChildIdx(_, _, _)
\* while (i < N && lowValInt >= keyArray[i] && keyArray[i] != -1) i++;
ScanChildIdx(pg, lowVal, i) ==
  IF i < INTARRAYNONLEAFSIZE /\ lowVal >= pg[NLkeyW(i)] /\ pg[NLkeyW(i)] # Sentinel
  THEN ScanChildIdx(pg, lowVal, i + 1)
  ELSE i

RECURSIVE FirstEntry(_, _, _, _)
\* while (nextEntry < M) { if (lower bound holds) return; nextEntry++; }
FirstEntry(pg, op, lowVal, n) ==
  IF n < INTARRAYLEAFSIZE /\ ~LowOk(op, pg[LFkeyW(n)], lowVal)
  THEN FirstEntry(pg, op, lowVal, n + 1)
  ELSE n

RECURSIVE getFirstRecordID(_, _, _, _, _, _)
\* [res, m, currentPageNum, nextEntry]; ne is nextEntry on entry.  fuel: the
\* recursion reads but never writes a node, so more calls than pages means
\* it does not return.
getFirstRecordID(m, pageNum, lowVal, op, ne, fuel) ==
  IF ~ValidPage(m, pageNum)
  THEN [res |-> "InvalidPage", m |-> m, currentPageNum |-> pageNum, nextEntry |-> ne]
  ELSE
    LET m1 == readPage(m, pageNum)
        pg == m.pages[pageNum]
        i  == ScanChildIdx(pg, lowVal, 0)
        m2 == unPinPage(m1, pageNum, FALSE)
        child == pg[NLpnoW(i)]
    IN IF pg[NLlevelW] = 1
       THEN IF ~ValidPage(m2, child)
            THEN [res |-> "InvalidPage", m |-> m2, currentPageNum |-> child,
                  nextEntry |-> ne]
            ELSE [res |-> "ok", m |-> readPage(m2, child), currentPageNum |-> child,
                  nextEntry |-> FirstEntry(m2.pages[child], op, lowVal, 0)]
       ELSE IF fuel = 0
            THEN [res |-> "Diverge", m |-> m2, currentPageNum |-> pageNum,
                  nextEntry |-> ne]
            ELSE getFirstRecordID(m2, child, lowVal, op, ne, fuel - 1)

\* A scanNext that ends the scan when it signals exhaustion.
ExecutingClearedOnCompleted(executing) == FALSE

\* What scanNext does to scanExecuting when it raises IndexScanCompleted:
\* neither throw site assigns it.
ExecutingAfterCompleted(executing) == executing

RECURSIVE ScanLoop(_, _, _, _, _, _, _, _)
\* The while (true) loop of scanNext: [res, m, currentPageNum, nextEntry, rid, key].
\* fuel: one iteration per (leaf, slot) pair; the loop writes no node, so
\* more iterations than pairs means it does not end.
ScanLoop(m, cpn, ne, lo, lowVal, ho, highVal, fuel) ==
  LET atEnd == ne = INTARRAYLEAFSIZE
      m1  == IF atEnd THEN unPinPage(m, cpn, FALSE) ELSE m
      sib == m.pages[cpn][LFsibW]
  IN IF atEnd /\ sib = 0
     THEN [res |-> "IndexScanCompleted", m |-> m1, currentPageNum |-> cpn,
           nextEntry |-> ne, rid |-> <<0, 0>>, key |-> 0]
     ELSE IF atEnd /\ ~ValidPage(m1, sib)
     THEN [res |-> "InvalidPage", m |-> m1, currentPageNum |-> sib,
           nextEntry |-> 0, rid |-> <<0, 0>>, key |-> 0]
     ELSE
       LET m2   == IF atEnd THEN readPage(m1, sib) ELSE m1
           cpn2 == IF atEnd THEN sib ELSE cpn
           ne2  == IF atEnd THEN 0 ELSE ne
           key  == m2.pages[cpn2][LFkeyW(ne2)]
       IN IF TooSmall(lo, key, lowVal)
          THEN IF fuel = 0
               THEN [res |-> "Diverge", m |-> m2, currentPageNum |-> cpn2,
                     nextEntry |-> ne2, rid |-> <<0, 0>>, key |-> 0]
               ELSE ScanLoop(m2, cpn2, ne2 + 1, lo, lowVal, ho, highVal, fuel - 1)
          ELSE IF TooBig(ho, key, highVal)
               THEN [res |-> "IndexScanCompleted", m |-> m2, currentPageNum |-> cpn2,
                     nextEntry |-> ne2, rid |-> <<0, 0>>, key |-> 0]
               ELSE [res |-> "ok", m |-> m2, currentPageNum |-> cpn2,
                     nextEntry |-> ne2 + 1, rid |-> LFrid(m2.pages[cpn2], ne2),
                     key |-> key]

\* =================================================================
\* The state machine
\* =================================================================
VARIABLES
  pages,           \* contents of the index file's pages, by PageId
  pinCnt,          \* buffer manager pin count of each page
  pageKind,        \* the struct each page was last initialised as
  rootPageNum,
  scanExecuting, lowValInt, highValInt, lowOp, highOp,
  currentPageNum,  \* currentPageData is the frame of this page
  nextEntry,
  outRid,          \* the caller's RecordId that scanNext writes (a fresh one per scan)
  lastOp,          \* name of the last call
  lastRes,         \* how it returned: "ok" or the exception raised
  crashed,         \* an exception no caller handles ended the run
  loading,         \* the run is still inserting; its scans come afterwards
  query,           \* the range this run scans: <<lowVal, lowOp, highVal, highOp>>
  inserted,        \* keys of the completed insertEntry calls; the n-th has rid RidOf(n)
  emitted,         \* <<rid, key>> pairs emitted by the scan in progress
  wasExecuting,    \* scanExecuting as the last call found it
  dirtied,         \* pages the last call unpinned with dirty = true
  relation,        \* the tuples of the relation file, in the order FileScan yields them
  attrByteOffset   \* the member set from the constructor's parameter

vars == <<pages, pinCnt, pageKind, rootPageNum, scanExecuting, lowValInt, highValInt, lowOp,
          highOp, currentPageNum, nextEntry, outRid, lastOp, lastRes, crashed,
          loading, query, inserted, emitted, wasExecuting, dirtied, relation, attrByteOffset>>

\* Keys offered to insertEntry.
Keys == {0, 1, 2}

\* A validation that also turns down a range of one value.
ValidateRejectEqual(lv, lo, hv, ho) ==
  IF (lo # "GT" /\ lo # "GTE") \/ (ho # "LT" /\ ho # "LTE") THEN "BadOpcodes"
  ELSE IF lv >= hv THEN "BadScanrange"
  ELSE "ok"

\* A validation that compares the bounds before it looks at the operators.
ValidateRangeFirst(lv, lo, hv, ho) ==
  IF lv > hv THEN "BadScanrange"
  ELSE IF (lo # "GT" /\ lo # "GTE") \/ (ho # "LT" /\ ho # "LTE") THEN "BadOpcodes"
  ELSE "ok"

\* startScan's validation: the exception it raises, or "ok".
Validate(lv, lo, hv, ho) ==
  IF (lo # "GT" /\ lo # "GTE") \/ (ho # "LT" /\ ho # "LTE") THEN "BadOpcodes"
  ELSE IF lv > hv THEN "BadScanrange"
  ELSE "ok"

\* Ranges a run may scan: from the smallest integer or from a key (inclusive
\* and exclusive), to the largest integer or to a key.
LowBounds == {<<INT_MIN, "GTE">>, <<0, "GTE">>, <<1, "GT">>, <<1, "GTE">>}
HighBounds == {<<INT_MAX, "LTE">>, <<1, "LTE">>, <<2, "LT">>, <<2, "LTE">>}
\* Ranges of one value under the operator pairs the bounds above do not give.
EqualQueries == {<<1, "GT", 1, "LT">>, <<1, "GTE", 1, "LT">>}
Queries ==
  {<<l[1], l[2], h[1], h[2]>> : l \in LowBounds, h \in HighBounds} \cup EqualQueries

\* Calls that startScan rejects: a bad lowOp, a bad highOp and both, over
\* ascending and descending values, and a descending range with good operators.
Probes ==
  { <<0, "LT", 1, "LTE">>, <<1, "GT", 0, "GTE">>, <<1, "LT", 0, "GT">>,
    <<1, "GTE", 0, "LTE">> }
Rejected == {r \in Probes : Validate(r[1], r[2], r[3], r[4]) # "ok"}

Mem == [pages |-> pages, pin |-> pinCnt, kind |-> pageKind, dirty |-> {}]

\* Header page as the constructor writes it from its parameters and the
\* PageId of the root page.
HeaderPageFor(name, off, type, root) ==
  [w \in 0 .. PageWords - 1 |->
     IF w = HDnameW THEN name
     ELSE IF w = HDoffsetW THEN off
     ELSE IF w = HDtypeW THEN type
     ELSE IF w = HDrootW THEN root ELSE 0]

\* Header page as the constructor writes it (rootPageNo = 2).
HeaderPage == HeaderPageFor(RelationNameWord, AttrByteOffset, AttrTypeInteger, 2)

\* Root as the constructor writes it: level 1, every slot sentinel.
EmptyRoot ==
  [w \in 0 .. PageWords - 1 |-> IF w = NLlevelW THEN 1 ELSE InitNonLeafPage(ZeroPage)[w]]

\* State after constructing an index over an empty relation: header and
\* root allocated, initialised and unpinned.  The constructor leaves the scan
\* members other than scanExecuting unset.  Only the destructor reads one of
\* them (currentPageNum) before startScan has assigned it: the 0 written here
\* stands for "not set", see CurrentPageNumRead.
Init ==
  /\ pages = <<HeaderPage, EmptyRoot>>
  /\ pinCnt = <<0, 0>>
  /\ pageKind = <<"header", "nonleaf">>
  /\ rootPageNum = 2
  /\ scanExecuting = FALSE
  /\ lowValInt = 0 /\ highValInt = 0 /\ lowOp = "GT" /\ highOp = "LT"
  /\ currentPageNum = 0
  /\ nextEntry = 0
  /\ outRid = <<0, 0>>
  /\ lastOp = "construct"
  /\ lastRes = "ok"
  /\ crashed = FALSE
  /\ loading = TRUE
  /\ query \in Queries
  /\ inserted = <<>>
  /\ emitted = <<>>
  /\ wasExecuting = FALSE
  /\ dirtied = {headerPageNum, 2}
  /\ relation = <<>>
  /\ attrByteOffset = AttrByteOffset

\* The object exists and no exception has ended the run.
Alive == ~crashed /\ lastOp # "destructor"

\* What the constructor is given: the relation and the attribute's offset.
BuildVars == <<relation, attrByteOffset>>

ScanVars == <<scanExecuting, lowValInt, highValInt, lowOp, highOp, currentPageNum, nextEntry>>

\* insertEntry as one of at most n calls of the run.
InsertEntryUpTo(k, n) ==
  /\ Alive
  /\ wasExecuting' = scanExecuting
  /\ loading
  /\ Len(inserted) < n
  /\ \E r \in {insertEntry(Mem, rootPageNum, k, RidOf(Len(inserted) + 1))} :
        /\ pages' = r.m.pages
        /\ pinCnt' = r.m.pin
        /\ dirtied' = r.m.dirty
        /\ pageKind' = r.m.kind
        /\ rootPageNum' = r.root
        /\ lastRes' = r.res
        /\ crashed' = (r.res # "ok")
        /\ inserted' = IF r.res = "ok" THEN Append(inserted, k) ELSE inserted
  /\ lastOp' = "insertEntry"
  /\ UNCHANGED <<BuildVars, ScanVars, outRid, loading, query, emitted>>

InsertEntry(k) == InsertEntryUpTo(k, MaxInserts)

\* An endScan that hands its page back as modified.
endScanPinsDirty(m, cpn) == unPinPage(m, cpn, TRUE)

\* endScan's effect on the buffer pool.
endScanPins(m, cpn) == unPinPage(m, cpn, FALSE)

\* An endScan without the check that a scan is executing.
endScanUnguarded(executing, m, cpn) ==
  [res |-> "ok", executing |-> FALSE, m |-> endScanPins(m, cpn)]

\* endScan: [res, executing, m].
endScan(executing, m, cpn) ==
  IF ~executing
  THEN [res |-> "ScanNotInitialized", executing |-> executing, m |-> m]
  ELSE [res |-> "ok", executing |-> FALSE, m |-> endScanPins(m, cpn)]

\* A startScan that leaves the scan in progress as it is.
ScanRestartSkipped(executing, m, cpn) == m

\* if (scanExecuting) endScan();  the buffer pool afterwards.
ScanRestart(executing, m, cpn) ==
  IF executing THEN endScan(executing, m, cpn).m ELSE m

\* The scan members of the object as one value.
ScanMembers ==
  [scanExecuting |-> scanExecuting, lowValInt |-> lowValInt, highValInt |-> highValInt,
   lowOp |-> lowOp, highOp |-> highOp, currentPageNum |-> currentPageNum,
   nextEntry |-> nextEntry]

\* The members and the buffer pool once getFirstRecordID (result g) has run.
ScanStarted(g, lv, lo, hv, ho) ==
  [res |-> g.res, m |-> g.m,
   st |-> [scanExecuting |-> TRUE, lowValInt |-> lv, highValInt |-> hv,
           lowOp |-> lo, highOp |-> ho, currentPageNum |-> g.currentPageNum,
           nextEntry |-> g.nextEntry]]

\* startScan on the members st and the buffer pool m: [res, m, st].
startScan(st, m, root, lv, lo, hv, ho) ==
  IF Validate(lv, lo, hv, ho) = "BadOpcodes"
  THEN [res |-> "BadOpcodes", m |-> m, st |-> st]
  ELSE IF Validate(lv, lo, hv, ho) = "BadScanrange"
  THEN [res |-> "BadScanrange", m |-> m,
        st |-> [st EXCEPT !.lowValInt = lv, !.highValInt = hv]]
  ELSE ScanStarted(getFirstRecordID(ScanRestart(st.scanExecuting, m, st.currentPageNum),
                                    root, lv, lo, st.nextEntry, Len(m.pages)),
                   lv, lo, hv, ho)

StartScan(lv, lo, hv, ho) ==
  /\ Alive
  /\ wasExecuting' = scanExecuting
  /\ lastOp' = "startScan"
  /\ loading' = FALSE
  /\ \E s \in {startScan(ScanMembers, Mem, rootPageNum, lv, lo, hv, ho)} :
        /\ lastRes' = s.res
        /\ scanExecuting' = s.st.scanExecuting
        /\ lowValInt' = s.st.lowValInt
        /\ highValInt' = s.st.highValInt
        /\ lowOp' = s.st.lowOp
        /\ highOp' = s.st.highOp
        /\ currentPageNum' = s.st.currentPageNum
        /\ nextEntry' = s.st.nextEntry
        /\ pages' = s.m.pages
        /\ pinCnt' = s.m.pin
        /\ dirtied' = s.m.dirty
        /\ crashed' = (s.res \in {"InvalidPage", "Diverge"})
        /\ emitted' = IF s.res \in {"BadOpcodes", "BadScanrange"} THEN emitted ELSE <<>>
        /\ outRid' = IF s.res \in {"BadOpcodes", "BadScanrange"} THEN outRid ELSE <<0, 0>>
  /\ UNCHANGED <<BuildVars, pageKind, rootPageNum, query, inserted>>

\* scanNext as a function of the state it reads: the exception path taken
\* when no scan is executing, else the loop.
scanNext(executing, m, cpn, ne, lo, lowVal, ho, highVal) ==
  IF ~executing
  THEN [res |-> "ScanNotInitialized", m |-> m, currentPageNum |-> cpn,
        nextEntry |-> ne, rid |-> <<0, 0>>, key |-> 0]
  ELSE ScanLoop(m, cpn, ne, lo, lowVal, ho, highVal,
                Len(m.pages) * (INTARRAYLEAFSIZE + 1) + 1)

ScanNext ==
  /\ Alive
  /\ wasExecuting' = scanExecuting
  /\ lastOp' = "scanNext"
  /\ loading' = FALSE
  /\ \E r \in {scanNext(scanExecuting, Mem, currentPageNum, nextEntry,
                        lowOp, lowValInt, highOp, highValInt)} :
        /\ lastRes' = r.res
        /\ pages' = r.m.pages
        /\ pinCnt' = r.m.pin
        /\ dirtied' = r.m.dirty
        /\ currentPageNum' = r.currentPageNum
        /\ nextEntry' = r.nextEntry
        /\ outRid' = IF r.res = "ok" THEN r.rid ELSE outRid
        /\ emitted' = IF r.res = "ok" THEN Append(emitted, <<r.rid, r.key>>) ELSE emitted
        /\ crashed' = (r.res \in {"InvalidPage", "Diverge"})
        /\ scanExecuting' = IF r.res = "IndexScanCompleted"
                            THEN ExecutingAfterCompleted(scanExecuting)
                            ELSE scanExecuting
  /\ UNCHANGED <<BuildVars, pageKind, rootPageNum, lowValInt, highValInt, lowOp, highOp, query,
                 inserted>>

EndScan ==
  /\ Alive
  /\ wasExecuting' = scanExecuting
  /\ lastOp' = "endScan"
  /\ loading' = FALSE
  /\ \E r \in {endScan(scanExecuting, Mem, currentPageNum)} :
        /\ lastRes' = r.res
        /\ scanExecuting' = r.executing
        /\ pages' = r.m.pages
        /\ pinCnt' = r.m.pin
        /\ dirtied' = r.m.dirty
        /\ emitted' = IF r.res = "ok" THEN <<>> ELSE emitted
  /\ UNCHANGED <<BuildVars, pageKind, rootPageNum, lowValInt, highValInt, lowOp, highOp,
                 currentPageNum, nextEntry, outRid, crashed, query, inserted>>

\* BufMgr::flushFile refuses a file one of whose pages is pinned.
flushFile(m) ==
  IF \E p \in 1 .. Len(m.pin) : m.pin[p] > 0 THEN "PagePinned" ELSE "ok"

\* What the destructor may read from currentPageNum: the PageId a scan has
\* stored there or, when no scan has (the constructor does not set the
\* member; Init writes it 0), any PageId at all.
CurrentPageNumRead(cpn, m) == IF cpn = 0 THEN 0 .. Len(m.pages) ELSE {cpn}

\* ~BTreeIndex with cpn read from currentPageNum: [res, executing, m].
destructor(m, cpn) ==
  [res |-> flushFile(unPinPage(m, cpn, FALSE)), executing |-> FALSE,
   m |-> unPinPage(m, cpn, FALSE)]

Destructor ==
  /\ Alive
  /\ wasExecuting' = scanExecuting
  /\ lastOp' = "destructor"
  /\ \E cpn \in CurrentPageNumRead(currentPageNum, Mem) :
        \E r \in {destructor(Mem, cpn)} :
           /\ lastRes' = r.res
           /\ scanExecuting' = r.executing
           /\ pages' = r.m.pages
           /\ pinCnt' = r.m.pin
           /\ dirtied' = r.m.dirty
           /\ crashed' = (r.res # "ok")
  /\ UNCHANGED <<BuildVars, pageKind, rootPageNum, lowValInt, highValInt, lowOp, highOp,
                 currentPageNum, nextEntry, outRid, loading, query, inserted, emitted>>

Next ==
  \/ \E k \in Keys : InsertEntry(k)
  \/ StartScan(query[1], query[2], query[3], query[4])
  \/ \E r \in Rejected : StartScan(r[1], r[2], r[3], r[4])
  \/ ScanNext
  \/ EndScan

\* The calls made on the index while it exists.
Spec == Init /\ [][Next]_vars

\* The same calls with, at any moment, the destruction of the index.
NextLife == Next \/ Destructor
SpecLife == Init /\ [][NextLife]_vars

\* A run that only loads the index, as the constructor's bulk load does.
Load(k) == InsertEntryUpTo(k, MaxLoad)
NextLoad == \E k \in Keys : Load(k)
SpecLoad == Init /\ [][NextLoad]_vars

\* ---------------------------------------------- insertEntry's key pointer
\* The key argument is a pointer: <<>> is nullptr, <<k>> points at the int k.
nullptr == <<>>

\* A null-key return that comes after the read of the root page.
NullKeyReturnAfterRead(m, root) == [res |-> "ok", m |-> readPage(m, root), root |-> root]

\* if (key == nullptr) return;
NullKeyReturn(m, root) == [res |-> "ok", m |-> m, root |-> root]

\* insertEntry from its first statement: [res, m, root].
insertEntryKey(m, root, key, rid) ==
  IF key = nullptr THEN NullKeyReturn(m, root) ELSE insertEntry(m, root, key[1], rid)

\* insertEntry(nullptr, rid), at any moment of the index's life.
InsertNull ==
  /\ Alive
  /\ wasExecuting' = scanExecuting
  /\ lastOp' = "insertNull"
  /\ \E r \in {insertEntryKey(Mem, rootPageNum, nullptr, RidOf(Len(inserted) + 1))} :
        /\ pages' = r.m.pages
        /\ pinCnt' = r.m.pin
        /\ dirtied' = r.m.dirty
        /\ pageKind' = r.m.kind
        /\ rootPageNum' = r.root
        /\ lastRes' = r.res
        /\ crashed' = (r.res # "ok")
  /\ UNCHANGED <<BuildVars, ScanVars, outRid, loading, query, inserted, emitted>>

\* A short run of inserts and scans in which insertEntry is also handed
\* nullptr.
NextShort ==
  \/ \E k \in Keys : InsertEntryUpTo(k, MaxShort)
  \/ StartScan(query[1], query[2], query[3], query[4])
  \/ ScanNext
  \/ EndScan
  \/ InsertNull
SpecShort == Init /\ [][NextShort]_vars

\* One scan of the loaded tree, read to its end: the inserts, then startScan
\* once, then scanNext for as long as the caller goes on calling it.
FirstScan == loading /\ StartScan(query[1], query[2], query[3], query[4])
NextOfScan == scanExecuting /\ ScanNext
NextScan ==
  \/ \E k \in Keys : InsertEntry(k)
  \/ FirstScan
  \/ NextOfScan
\* The caller of a started scan calls scanNext again until it is told to stop.
SpecScan == Init /\ [][NextScan]_vars /\ WF_vars(NextOfScan)

\* --------------------------------------- building and opening the file
\* A tuple is the string of bytes FileScan::getRecord returns; these hold
\* three ints in host (little-endian) order.
Tuples ==
  { <<1, 0, 0, 0,  2, 0, 0, 0,  0, 0, 0, 0>>,
    <<0, 0, 0, 0,  1, 0, 0, 0,  2, 0, 0, 0>>,
    <<2, 0, 0, 0,  0, 0, 0, 0,  1, 0, 0, 0>> }

\* Values of the constructor's attrByteOffset.
Offsets == {0, 1, 2}

Relations == UNION {[1 .. n -> Tuples] : n \in 0 .. MaxTuples}

\* The int made of the four bytes that start at byte position pos (from 0).
IntAt(bytes, pos) ==
  bytes[pos + 1] + 256 * bytes[pos + 2] + 65536 * bytes[pos + 3]
    + 16777216 * (IF bytes[pos + 4] >= 128 THEN bytes[pos + 4] - 256 ELSE bytes[pos + 4])

\* (int*) record + attrByteOffset: the offset counts ints, not bytes.
KeyPosition(off) == 4 * off

\* *((int*) key) for key = (int*) getRecord().c_str() + attrByteOffset.
ExtractKey(tuple, off) == IntAt(tuple, KeyPosition(off))

\* The constructor on a new file, up to the start of the bulk load: header
\* and root allocated (so pinned) and initialised.
InitBuild ==
  /\ relation \in Relations
  /\ attrByteOffset \in Offsets
  /\ pages = <<HeaderPageFor(RelationNameWord, attrByteOffset, AttrTypeInteger, 2),
               EmptyRoot>>
  /\ pinCnt = <<1, 1>>
  /\ pageKind = <<"header", "nonleaf">>
  /\ rootPageNum = 2
  /\ scanExecuting = FALSE
  /\ lowValInt = 0 /\ highValInt = 0 /\ lowOp = "GT" /\ highOp = "LT"
  /\ currentPageNum = 0
  /\ nextEntry = 0
  /\ outRid = <<0, 0>>
  /\ lastOp = "create"
  /\ lastRes = "ok"
  /\ crashed = FALSE
  /\ loading = TRUE
  /\ query = <<INT_MIN, "GTE", INT_MAX, "LTE">>
  /\ inserted = <<>>
  /\ emitted = <<>>
  /\ wasExecuting = FALSE
  /\ dirtied = {}

\* The constructor is inside its bulk load.
BulkLoading == ~crashed /\ lastOp \in {"create", "bulkLoad"}

\* One round of the bulk load: fileScan.scanNext(rid) yields the next tuple
\* and insertEntry is called with the key taken from its bytes.
BulkLoadNext ==
  /\ BulkLoading
  /\ Len(inserted) < Len(relation)
  /\ wasExecuting' = scanExecuting
  /\ \E r \in {insertEntry(Mem, rootPageNum,
                            ExtractKey(relation[Len(inserted) + 1], attrByteOffset),
                            RidOf(Len(inserted) + 1))} :
        /\ pages' = r.m.pages
        /\ pinCnt' = r.m.pin
        /\ dirtied' = r.m.dirty
        /\ pageKind' = r.m.kind
        /\ rootPageNum' = r.root
        /\ lastRes' = r.res
        /\ crashed' = (r.res # "ok")
        /\ inserted' = IF r.res = "ok"
                       THEN Append(inserted,
                                   ExtractKey(relation[Len(inserted) + 1], attrByteOffset))
                       ELSE inserted
  /\ lastOp' = "bulkLoad"
  /\ UNCHANGED <<BuildVars, ScanVars, outRid, loading, query, emitted>>

\* The end of the constructor on a new file: unpin header page and root page.
constructEnd(m, root) == unPinPage(unPinPage(m, headerPageNum, TRUE), root, TRUE)

\* fileScan.scanNext raises EndOfFileException: the constructor catches it
\* and finishes.
BulkLoadEnd ==
  /\ BulkLoading
  /\ Len(inserted) = Len(relation)
  /\ wasExecuting' = scanExecuting
  /\ lastOp' = "construct"
  /\ lastRes' = "ok"
  /\ pinCnt' = constructEnd(Mem, rootPageNum).pin
  /\ dirtied' = constructEnd(Mem, rootPageNum).dirty
  /\ UNCHANGED <<BuildVars, ScanVars, pages, pageKind, rootPageNum, outRid, crashed,
                 loading, query, inserted, emitted>>

\* The destructor of an index whose constructor has returned.
Close == lastOp \in {"construct", "open"} /\ Destructor

\* Parameters offered to the constructor when the index file exists.
RelationNames == {RelationNameWord, RelationNameWord + 1}
AttrTypes == {AttrTypeInteger, AttrTypeInteger + 1}

\* What the open path reads from headerPageNum: this path does not assign
\* the member (only allocPage, on the create path, does), so it holds any
\* PageId at all.
HeaderPageNumRead(m) == 0 .. Len(m.pages)

\* The path's comparison of the header with the parameters.
HeaderMismatch(pg, name, off, type) ==
  pg[HDnameW] # name \/ pg[HDoffsetW] # off \/ pg[HDtypeW] # type

\* The constructor on an existing file, with hp read from headerPageNum:
\* [res, m].
open(m, hp, name, off, type) ==
  IF ~ValidPage(m, hp) THEN [res |-> "InvalidPage", m |-> m]
  ELSE IF HeaderMismatch(m.pages[hp], name, off, type)
  THEN [res |-> "BadIndexInfo", m |-> unPinPage(readPage(m, hp), hp, FALSE)]
  ELSE [res |-> "ok", m |-> unPinPage(readPage(m, hp), hp, FALSE)]

\* The index file is on disk, flushed and closed.
Closed == lastOp = "destructor" /\ ~crashed

\* What rootPageNum of the new object holds when the open path is done: the
\* path has no assignment to the member (the header's rootPageNo is not
\* read), so it holds any PageId at all.
RootPageNumUnset(m) == 0 .. Len(m.pages)

\* A new BTreeIndex is constructed on the existing file.  The path leaves
\* rootPageNum and currentPageNum of the new object unset (currentPageNum is
\* written 0, see CurrentPageNumRead).
Open(name, off, type) ==
  /\ Closed
  /\ wasExecuting' = scanExecuting
  /\ lastOp' = "open"
  /\ attrByteOffset' = off
  /\ scanExecuting' = FALSE
  /\ rootPageNum' \in RootPageNumUnset(Mem)
  /\ currentPageNum' = 0
  /\ \E hp \in HeaderPageNumRead(Mem) :
        \E r \in {open(Mem, hp, name, off, type)} :
           /\ lastRes' = r.res
           /\ pages' = r.m.pages
           /\ pinCnt' = r.m.pin
           /\ dirtied' = r.m.dirty
           /\ crashed' = (r.res # "ok")
  /\ UNCHANGED <<relation, pageKind, lowValInt, highValInt, lowOp, highOp, nextEntry,
                 outRid, loading, query, inserted, emitted>>

NextFile ==
  \/ BulkLoadNext
  \/ BulkLoadEnd
  \/ Close
  \/ \E name \in RelationNames : \E off \in Offsets : \E type \in AttrTypes :
        Open(name, off, type)

\* An index file from its creation over a relation to its reopening.
SpecFile == InitBuild /\ [][NextFile]_vars

\* =================================================================
\* Properties
\* =================================================================
RECURSIVE BagOfSeq(_)
\* The multiset of the elements of a sequence.
BagOfSeq(sq) ==
  IF sq = <<>> THEN EmptyBag
  ELSE LET rest == BagOfSeq(Tail(sq))
           h == Head(sq)
       IN IF h \in DOMAIN rest THEN [rest EXCEPT ![h] = @ + 1]
          ELSE rest @@ (h :> 1)

InsertedRids == {RidOf(n) : n \in 1 .. Len(inserted)}
EmittedRids == [n \in 1 .. Len(emitted) |-> emitted[n][1]]
EmittedKeys == [n \in 1 .. Len(emitted) |-> emitted[n][2]]

\* The key satisfies both bounds of the query <<lowVal, lowOp, highVal, highOp>>.
InRange(k, q) ==
  /\ (IF q[2] = "GT" THEN k > q[1] ELSE k >= q[1])
  /\ (IF q[4] = "LT" THEN k < q[3] ELSE k <= q[3])

\* Rids of the inserted entries the query asks for.
Qualifying(q) == {RidOf(n) : n \in {j \in 1 .. Len(inserted) : InRange(inserted[j], q)}}

\* The scan of the run's query ran to IndexScanCompleted.
ScanDone ==
  /\ lastOp = "scanNext" /\ lastRes = "IndexScanCompleted"
  /\ <<lowValInt, lowOp, highValInt, highOp>> = query

FullRange == <<INT_MIN, "GTE", INT_MAX, "LTE">>

\* C1: after any inserts, the full-range scan run to completion emits
\* exactly the multiset of inserted rids.
C1_FullScanRoundTrip ==
  (ScanDone /\ query = FullRange) =>
     BagOfSeq(EmittedRids) = SetToBag(InsertedRids)

\* C2: a valid scan with 0 <= lowVal <= highVal run to completion emits every
\* inserted entry whose key satisfies both bounds, each exactly once.
C2_ScanComplete ==
  (ScanDone /\ query[1] >= 0) =>
     BagOfSeq(EmittedRids) = SetToBag(Qualifying(query))

\* C3: with 0 <= lowVal <= highVal, every emitted rid is the rid of an
\* inserted entry whose key satisfies both bounds (a key equal to a bound
\* only under GTE / LTE).
C3_EmittedInRange ==
  query[1] >= 0 =>
     /\ \A n \in 1 .. Len(emitted) : emitted[n][1] \in Qualifying(query)
     /\ (lastOp = "scanNext" /\ lastRes = "ok") => outRid \in Qualifying(query)

\* C4: within one scan the keys of the emitted entries are non-decreasing:
\* the keys read from the emitted slots, and the keys with which the emitted
\* rids were inserted.
C4_EmittedAscending ==
  \A i \in 1 .. Len(emitted) : \A j \in i .. Len(emitted) :
     /\ emitted[i][2] <= emitted[j][2]
     /\ (emitted[i][1] \in InsertedRids /\ emitted[j][1] \in InsertedRids)
           => inserted[emitted[i][1][1]] <= inserted[emitted[j][1][1]]

\* A scan has emitted entries with different keys, taken from different leaves.
C4_Witness ==
  /\ Len(emitted) >= 3
  /\ emitted[1][2] < emitted[Len(emitted)][2]
  /\ nextEntry <= 2

\* ---- the entries stored in the leaves reachable from the root
UsedKeys(pg) ==
  LET S == {i \in 0 .. INTARRAYNONLEAFSIZE - 1 : pg[NLkeyW(i)] = Sentinel}
  IN IF S = {} THEN INTARRAYNONLEAFSIZE
     ELSE CHOOSE i \in S : \A j \in S : i <= j

LeafEntries(pg) ==
  BagOfSeq([n \in 1 .. Cardinality({i \in 0 .. INTARRAYLEAFSIZE - 1 : pg[LFkeyW(i)] # Sentinel})
              |-> LET i == CHOOSE i \in 0 .. INTARRAYLEAFSIZE - 1 :
                             /\ pg[LFkeyW(i)] # Sentinel
                             /\ Cardinality({j \in 0 .. i - 1 : pg[LFkeyW(j)] # Sentinel}) = n - 1
                  IN <<pg[LFkeyW(i)], LFrid(pg, i)>>])

RECURSIVE SubtreeEntries(_, _, _)
RECURSIVE ChildrenEntries(_, _, _, _)
\* Entries under the non-leaf node at page id; depth bounds the walk.
SubtreeEntries(id, isLeaf, depth) ==
  IF id \notin 1 .. Len(pages) \/ depth = 0 THEN EmptyBag
  ELSE IF isLeaf THEN LeafEntries(pages[id])
  ELSE ChildrenEntries(id, 0, UsedKeys(pages[id]), depth)

ChildrenEntries(id, i, last, depth) ==
  IF i > last THEN EmptyBag
  ELSE SubtreeEntries(pages[id][NLpnoW(i)], pages[id][NLlevelW] = 1, depth - 1)
         (+) ChildrenEntries(id, i + 1, last, depth)

StoredEntries == SubtreeEntries(rootPageNum, FALSE, Len(pages) + 1)
InsertedEntries == BagOfSeq([n \in 1 .. Len(inserted) |-> <<inserted[n], RidOf(n)>>])

\* C5: after n inserts the leaves reachable from the root hold exactly the n
\* inserted (key, rid) pairs, duplicates counted.
C5_AllEntriesStored ==
  (lastOp = "insertEntry" /\ lastRes = "ok") => StoredEntries = InsertedEntries

RidsWithKey(k) == {RidOf(n) : n \in {j \in 1 .. Len(inserted) : inserted[j] = k}}

\* C6: for a key k inserted at least once, the scan [GTE k, LTE k] emits
\* exactly the rids inserted with k and the scan [GT k, LTE k] emits nothing.
C6_ExactKeyScan ==
  \A k \in Keys :
    (ScanDone /\ RidsWithKey(k) # {}) =>
       /\ query = <<k, "GTE", k, "LTE">> =>
             BagOfSeq(EmittedRids) = SetToBag(RidsWithKey(k))
       /\ query = <<k, "GT", k, "LTE">> => emitted = <<>>

\* C7: when no inserted entry satisfies the query, startScan succeeds and
\* scanNext raises IndexScanCompleted without emitting a rid.
C7_EmptyRangeCompletes ==
  Qualifying(query) = {} =>
     /\ (lastOp = "startScan" /\ lastRes \notin {"BadOpcodes", "BadScanrange"})
           => lastRes = "ok"
     /\ (lastOp = "scanNext" /\ scanExecuting
           /\ <<lowValInt, lowOp, highValInt, highOp>> = query)
           => (lastRes = "IndexScanCompleted" /\ emitted = <<>>)

C9_IdleCallsRejected ==
  [][(~scanExecuting /\ lastOp' \in {"scanNext", "endScan"}) =>
       /\ lastRes' = "ScanNotInitialized"
       /\ UNCHANGED <<ScanVars, pinCnt, outRid>>]_vars

C9_Witness ==
  /\ lastOp \in {"scanNext", "endScan"} /\ lastRes = "ScanNotInitialized"
  /\ \E p \in 1 .. Len(pinCnt) : pinCnt[p] > 0

BadOps(r) == r[2] \notin {"GT", "GTE"} \/ r[4] \notin {"LT", "LTE"}

\* The step raises BadOpcodes and, taken in Idle, leaves the index Idle with
\* every pin count as it was.
BadOpcodesOutcome ==
  /\ lastRes' = "BadOpcodes"
  /\ ~scanExecuting => (~scanExecuting' /\ pinCnt' = pinCnt)

\* C10: startScan with a lowOp outside {GT, GTE} or a highOp outside {LT, LTE}
\* raises BadOpcodes whatever the bound values (also when lowVal > highVal);
\* called in Idle it leaves the index Idle and pins no page.  Stated by
\* contraposition: a step with any other outcome is no such call.
C10_BadOpcodes ==
  [][~BadOpcodesOutcome =>
       \A r \in Rejected : ~(BadOps(r) /\ StartScan(r[1], r[2], r[3], r[4]))]_vars

C10_Witness ==
  /\ lastOp = "startScan" /\ lastRes = "BadOpcodes" /\ ~scanExecuting
  /\ inserted # <<>>

\* What startScan returns when it is called in the current state with the
\* arguments r = <<lowVal, lowOp, highVal, highOp>>: [res, m, st].
StartScanNow(r) == startScan(ScanMembers, Mem, rootPageNum, r[1], r[2], r[3], r[4])

\* Descending ranges: adjacent keys under each pair of good operators, and
\* the two ends of int.
DescendingCalls ==
  {<<1, lo, 0, ho>> : lo \in {"GT", "GTE"}, ho \in {"LT", "LTE"}}
    \cup {<<INT_MAX, "GTE", INT_MIN, "LTE">>}

\* C11: in every state, startScan with good operators and lowVal > highVal
\* raises BadScanrange and, called in Idle, leaves the index Idle and every
\* pin count as it is; startScan with lowVal = highVal raises neither
\* BadScanrange nor BadOpcodes, under each of the four operator pairs.
C11_BadScanrange ==
  Alive =>
    /\ \A r \in DescendingCalls :
          \E s \in {StartScanNow(r)} :
             /\ s.res = "BadScanrange"
             /\ ~scanExecuting => (~s.st.scanExecuting /\ s.m.pin = pinCnt)
    /\ query[1] = query[3] =>
          StartScanNow(query).res \notin {"BadScanrange", "BadOpcodes"}

\* A descending range was turned down in Idle, after inserts.
C11_Witness ==
  /\ lastOp = "startScan" /\ lastRes = "BadScanrange" /\ ~scanExecuting
  /\ lowValInt > highValInt
  /\ inserted # <<>>

\* C12: in every state in which a scan is executing, startScan with the
\* run's (valid) range returns the scan members, the pin counts and the
\* outcome that endScan followed by the same startScan returns.
C12_RestartIsEndThenStart ==
  (Alive /\ scanExecuting) =>
     \E e \in {endScan(scanExecuting, Mem, currentPageNum)} :
       \E a \in {StartScanNow(query)} :
         \E b \in {startScan([ScanMembers EXCEPT !.scanExecuting = e.executing], e.m,
                             rootPageNum, query[1], query[2], query[3], query[4])} :
            /\ e.res = "ok"
            /\ a.res = b.res
            /\ a.st = b.st
            /\ a.m.pin = b.m.pin

\* A startScan has replaced a scan in progress and holds its first leaf.
C12_Witness ==
  /\ lastOp = "startScan" /\ lastRes = "ok" /\ wasExecuting /\ scanExecuting
  /\ pinCnt[currentPageNum] > 0

\* C13: when insertEntry or endScan has returned (or the index has just been
\* constructed) and no scan is executing, every page has pin count zero.
C13_NoPinsAtRest ==
  (lastOp \in {"construct", "insertEntry", "endScan"} /\ lastRes = "ok"
     /\ ~scanExecuting) =>
     \A p \in 1 .. Len(pinCnt) : pinCnt[p] = 0

\* C14: while a scan is executing, between calls, the only pinned page is
\* currentPageNum and its pin count is 1.
C14_OnePinnedLeafWhileScanning ==
  (scanExecuting /\ ~crashed) =>
     /\ {p \in 1 .. Len(pinCnt) : pinCnt[p] > 0} = {currentPageNum}
     /\ pinCnt[currentPageNum] = 1

\* C15: after the destructor the scan is terminated, no page is pinned and
\* the flush of the file was carried out.
C15_DestructorClean ==
  lastOp = "destructor" =>
     /\ ~scanExecuting
     /\ \A p \in 1 .. Len(pinCnt) : pinCnt[p] = 0
     /\ lastRes = "ok"

\* ---- the nodes the code reaches from the root
RECURSIVE Walk(_, _, _, _)
\* <<PageId, isLeaf, depth>> of every page reached from page id, a node's
\* children being leaves when its level is 1; fuel bounds the walk.
Walk(id, isLeaf, depth, fuel) ==
  IF id \notin 1 .. Len(pages) \/ fuel = 0 THEN {}
  ELSE IF isLeaf THEN {<<id, TRUE, depth>>}
  ELSE {<<id, FALSE, depth>>} \cup
       UNION {Walk(pages[id][NLpnoW(i)], pages[id][NLlevelW] = 1, depth + 1, fuel - 1) :
                i \in 0 .. UsedKeys(pages[id])}

Reached == Walk(rootPageNum, FALSE, 0, Len(pages) + 1)
NonLeafNodes == {t[1] : t \in {u \in Reached : ~u[2]}}
Leaves == {t[1] : t \in {u \in Reached : u[2]}}

AfterInsert == lastOp = "insertEntry" /\ lastRes = "ok"

\* Keys stored under child i of the non-leaf node at page id.
KeysUnder(id, i) ==
  {e[1] : e \in BagToSet(SubtreeEntries(pages[id][NLpnoW(i)], pages[id][NLlevelW] = 1,
                                        Len(pages) + 1))}

\* C16: in every non-leaf node reachable from the root, the keys under
\* pageNoArray[i] are below keyArray[i] and the keys under the last used
\* child are at or above the node's largest key.
C16_KeysSeparated ==
  AfterInsert =>
    \A id \in NonLeafNodes :
       /\ \A i \in 0 .. UsedKeys(pages[id]) - 1 :
             \A k \in KeysUnder(id, i) : k < pages[id][NLkeyW(i)]
       /\ UsedKeys(pages[id]) > 0 =>
             \A k \in KeysUnder(id, UsedKeys(pages[id])) :
                k >= pages[id][NLkeyW(UsedKeys(pages[id]) - 1)]

\* C17: in every non-leaf node reachable from the root the used keys are
\* strictly ascending and dense, and the child pointers in use are those of
\* indexes 0 .. number of used keys, each a valid PageId.
C17_NonLeafWellFormed ==
  AfterInsert =>
    \A id \in NonLeafNodes :
       /\ \A i \in 0 .. INTARRAYNONLEAFSIZE - 1 :
             i >= UsedKeys(pages[id]) => pages[id][NLkeyW(i)] = Sentinel
       /\ \A i \in 1 .. UsedKeys(pages[id]) - 1 :
             pages[id][NLkeyW(i - 1)] < pages[id][NLkeyW(i)]
       /\ \A i \in 0 .. INTARRAYNONLEAFSIZE :
             IF i <= UsedKeys(pages[id])
             THEN pages[id][NLpnoW(i)] \in 1 .. Len(pages)
             ELSE pages[id][NLpnoW(i)] = INVALID_NUMBER

\* Number of used key slots of a leaf: the index of the first sentinel.
LeafUsed(pg) ==
  LET S == {i \in 0 .. INTARRAYLEAFSIZE - 1 : pg[LFkeyW(i)] = Sentinel}
  IN IF S = {} THEN INTARRAYLEAFSIZE
     ELSE CHOOSE i \in S : \A j \in S : i <= j

\* C18: in every leaf the used keys are non-decreasing and dense, and slot i
\* holds the rid that was inserted with the key of slot i.
C18_LeafWellFormed ==
  AfterInsert =>
    \A id \in Leaves :
       /\ \A i \in 0 .. INTARRAYLEAFSIZE - 1 :
             i >= LeafUsed(pages[id]) => pages[id][LFkeyW(i)] = Sentinel
       /\ \A i \in 1 .. LeafUsed(pages[id]) - 1 :
             pages[id][LFkeyW(i - 1)] <= pages[id][LFkeyW(i)]
       /\ \A i \in 0 .. LeafUsed(pages[id]) - 1 :
             LFrid(pages[id], i) \in RidsWithKey(pages[id][LFkeyW(i)])

RECURSIVE LeftmostLeaf(_, _)
\* The leaf reached through pageNoArray[0] at every level (0 when the walk
\* leaves the file).
LeftmostLeaf(id, fuel) ==
  IF id \notin 1 .. Len(pages) \/ fuel = 0 THEN 0
  ELSE IF pages[id][NLlevelW] = 1 THEN pages[id][NLpnoW(0)]
  ELSE LeftmostLeaf(pages[id][NLpnoW(0)], fuel - 1)

RECURSIVE SiblingChain(_, _)
\* The leaves met following rightSibPageNo from page id, in order.
SiblingChain(id, fuel) ==
  IF id \notin 1 .. Len(pages) \/ fuel = 0 THEN <<>>
  ELSE <<id>> \o SiblingChain(pages[id][LFsibW], fuel - 1)

Chain == SiblingChain(LeftmostLeaf(rootPageNum, Len(pages) + 1), Len(pages) + 1)

LeafKeys(id) == {pages[id][LFkeyW(i)] : i \in 0 .. LeafUsed(pages[id]) - 1}

\* C19: on a non-empty tree the sibling chain from the leftmost leaf visits
\* every leaf reachable from the root exactly once, in ascending key order,
\* and ends with rightSibPageNo = 0.
C19_SiblingChain ==
  (AfterInsert /\ inserted # <<>>) =>
     /\ {Chain[n] : n \in 1 .. Len(Chain)} = Leaves
     /\ \A a, b \in 1 .. Len(Chain) : a < b =>
           /\ Chain[a] # Chain[b]
           /\ \A x \in LeafKeys(Chain[a]) : \A y \in LeafKeys(Chain[b]) : x <= y
     /\ Chain # <<>> /\ pages[Chain[Len(Chain)]][LFsibW] = 0

\* C20: every page made as a leaf that the code reaches from the root lies
\* at the same depth.
C20_UniformDepth ==
  AfterInsert =>
    Cardinality({t[3] : t \in {u \in Reached : pageKind[u[1]] = "leaf"}}) <= 1

\* C21: the construction of an index on a new file over a relation of n
\* tuples returns normally, no insert of the bulk load having raised an
\* exception, and the leaves reachable from the root then hold exactly the n
\* (key, rid) pairs handed to insertEntry, one per tuple.
C21_BulkLoadComplete ==
  /\ lastOp = "bulkLoad" => lastRes = "ok"
  /\ lastOp = "construct" =>
        /\ lastRes = "ok"
        /\ Len(inserted) = Len(relation)
        /\ StoredEntries = InsertedEntries

\* The file is closed: its header as a later constructor may read it.
OpenNow(hp, name, off, type) == open(Mem, hp, name, off, type)

\* C22: on a closed index file, the constructor called with a relation
\* name, attrByteOffset or attrType other than the header's raises
\* BadIndexInfo, and called with the header's three values it succeeds; either
\* way the header page is left unpinned and no page is changed.
C22_OpenChecksHeader ==
  Closed =>
    \A name \in RelationNames : \A off \in Offsets : \A type \in AttrTypes :
      \A hp \in HeaderPageNumRead(Mem) :
        \E r \in {OpenNow(hp, name, off, type)} :
           /\ r.res = IF HeaderMismatch(pages[headerPageNum], name, off, type)
                      THEN "BadIndexInfo" ELSE "ok"
           /\ r.m.pin[headerPageNum] = 0
           /\ r.m.pages = pages

\* C30: the key the bulk load inserts for a tuple is the int that starts at
\* byte attrByteOffset of the tuple.
C30_KeyAtByteOffset ==
  lastOp \in {"bulkLoad", "construct"} =>
    \A n \in 1 .. Len(inserted) : inserted[n] = IntAt(relation[n], attrByteOffset)

\* C23: insertEntry with a null key pointer returns normally and leaves
\* every page, the set of pages, every pin count, rootPageNum and the scan
\* members as they were.
C23_NullKeyNoOp ==
  [][lastOp' = "insertNull" =>
       /\ lastRes' = "ok"
       /\ UNCHANGED <<pages, pinCnt, pageKind, rootPageNum, ScanVars, outRid>>]_vars

\* A null key was passed while a scan held its leaf pinned, on a loaded tree.
C23_Witness ==
  /\ lastOp = "insertNull" /\ lastRes = "ok"
  /\ scanExecuting /\ inserted # <<>>
  /\ currentPageNum \in 1 .. Len(pinCnt) /\ pinCnt[currentPageNum] > 0

ScanCalls == {"startScan", "scanNext", "endScan"}

\* C24: a call of startScan, scanNext or endScan, however it returns,
\* leaves every page of the file (header and nodes) and the number of pages
\* as they were, leaves rootPageNum as it was, and unpins no page with
\* dirty = true.
C24_ScansReadOnly ==
  [][lastOp' \in ScanCalls =>
       /\ UNCHANGED <<pages, rootPageNum>>
       /\ dirtied' = {}]_vars

\* A scan over a tree of several leaves was ended and its leaf unpinned.
C24_Witness ==
  /\ lastOp = "endScan" /\ lastRes = "ok"
  /\ Len(inserted) >= 3
  /\ currentPageNum \in 1 .. Len(pinCnt) /\ pinCnt[currentPageNum] = 0

\* The descent of insertEntry(k, ...) called in the current state.
DescentNow(k) ==
  Descend(readPage(Mem, rootPageNum), rootPageNum, <<rootPageNum>>, k, Len(pages))

\* C25: the descent of insertEntry allocates pages or stores into a node
\* only on the empty tree, whose root has the sentinel in keyArray[0]; on a
\* tree that holds an entry it leaves every page as it is, whatever the key.
C25_DescentWritesOnlyEmptyRoot ==
  Alive =>
    \A k \in Keys :
       \E d \in {DescentNow(k)} :
          d.m.pages # pages =>
             (inserted = <<>> /\ pages[rootPageNum][NLkeyW(0)] = Sentinel)

\* RecordId of the next tuple handed to insertEntry.
NextRid == RidOf(Len(inserted) + 1)

\* Keys in the used slots of a leaf.
KeysOfLeaf(pg) ==
  {pg[LFkeyW(i)] : i \in {j \in 0 .. INTARRAYLEAFSIZE - 1 : pg[LFkeyW(j)] # Sentinel}}

\* The leaf behind dataNode is full: insertKeyInLeafNode turns the pair down.
TargetsFullLeaf(d, k) ==
  d.res = "ok" /\ ~insertKeyInLeafNode(d.m, d.dataNode, k, NextRid).ok

\* What the split of leaf page dataId (old before, left after) into the new
\* page (new) with the pair (k, NextRid) must satisfy; s is the split's result.
LeafSplitOk(s, old, left, new, k) ==
  /\ LeafEntries(left) (+) LeafEntries(new) = LeafEntries(old) (+) SetToBag({<<k, NextRid>>})
  /\ \A i \in LeafMidIdx .. INTARRAYLEAFSIZE - 1 :
        <<old[LFkeyW(i)], LFrid(old, i)>> \in DOMAIN LeafEntries(new)
  /\ \A x \in KeysOfLeaf(left) : \A y \in KeysOfLeaf(new) : x <= y
  /\ LeafUsed(left) \in 1 .. INTARRAYLEAFSIZE
  /\ LeafUsed(new) \in 1 .. INTARRAYLEAFSIZE
  /\ s.intKey = new[LFkeyW(0)]

\* C26: in every state and for every key whose insertEntry reaches a full
\* leaf, splitLeafNode leaves in the original leaf and the newly allocated
\* leaf together exactly the old pairs and the new pair, the old entries
\* [mid, M) in the new leaf, every key of the original leaf <= every key of the
\* new leaf, neither leaf empty or over capacity, and hands up the new leaf's
\* first key.
C26_LeafSplit ==
  Alive =>
    \A k \in Keys :
       \E d \in {DescentNow(k)} :
          TargetsFullLeaf(d, k) =>
             \E s \in {splitLeafNode(d.m, d.dataNode, k, NextRid)} :
                /\ s.pageId = Len(d.m.pages) + 1
                /\ LeafSplitOk(s, d.m.pages[d.dataNode], s.m.pages[d.dataNode],
                               s.m.pages[s.pageId], k)

\* An insert has split a leaf: the original leaf is linked to the new one
\* and both hold entries.
C26_Witness ==
  /\ AfterInsert
  /\ \E id \in 1 .. Len(pages) :
        /\ pageKind[id] = "leaf"
        /\ pages[id][LFsibW] \in 1 .. Len(pages)
        /\ LeafUsed(pages[id]) >= 1
        /\ LeafUsed(pages[pages[id][LFsibW]]) >= 1

\* The used keys of a non-leaf node and the child pointers that go with them.
NonLeafKeyBag(pg) == BagOfSeq([n \in 1 .. UsedKeys(pg) |-> pg[NLkeyW(n - 1)]])
NonLeafChildBag(pg) == BagOfSeq([n \in 1 .. UsedKeys(pg) + 1 |-> pg[NLpnoW(n - 1)]])

\* The state of insertEntry(k, ...) when its leaf split (result s) has
\* read the parent: [m, parent].
AtParent(d, s) ==
  [m |-> readPage(s.m, d.path[Len(d.path) - 1]), parent |-> d.path[Len(d.path) - 1]]

\* What the split of a full non-leaf node (old before, left after) into the
\* new node (new) on receiving (key, child) must satisfy; t is the split's
\* result.
NonLeafSplitOk(t, old, left, new, key, child) ==
  /\ NonLeafKeyBag(left) (+) NonLeafKeyBag(new) (+) SetToBag({t.intKey})
        = NonLeafKeyBag(old) (+) SetToBag({key})
  /\ NonLeafChildBag(left) (+) NonLeafChildBag(new)
        = NonLeafChildBag(old) (+) SetToBag({child})
  /\ UsedKeys(left) = NonLeafMidIdx
  /\ UsedKeys(new) = INTARRAYNONLEAFSIZE - NonLeafMidIdx
  /\ left[NLpnoW(0)] = old[NLpnoW(0)]
  /\ new[NLlevelW] = old[NLlevelW]
  /\ \A x \in DOMAIN NonLeafKeyBag(left) : x <= t.intKey
  /\ \A y \in DOMAIN NonLeafKeyBag(new) : t.intKey <= y

\* C27: in every state and for every key whose insertEntry splits a leaf
\* under a full non-leaf node, splitNonLeafNode promotes the key of index mid
\* of the N + 1 sorted keys and keeps it in neither node, leaves the first mid
\* keys and pageNoArray[0] in the original node and the keys after mid in the
\* new node, gives the new node the original's level, and loses no key and no
\* child pointer.
C27_NonLeafSplit ==
  Alive =>
    \A k \in Keys :
       \E d \in {DescentNow(k)} :
          TargetsFullLeaf(d, k) =>
             \E s \in {splitLeafNode(d.m, d.dataNode, k, NextRid)} :
               \E a \in {AtParent(d, s)} :
                 ~insertKeyInNonLeafNode(a.m, a.parent, s.intKey, s.pageId).ok =>
                    \E t \in {splitNonLeafNode(a.m, a.parent, s.intKey, s.pageId)} :
                       NonLeafSplitOk(t, a.m.pages[a.parent], t.m.pages[a.parent],
                                      t.m.pages[t.pageId], s.intKey, s.pageId)

\* insertEntry(k, ...) called in the current state: [res, m, root].
InsertNow(k) == insertEntry(Mem, rootPageNum, k, NextRid)

\* The insert splits the root: the leaf it reaches is full and so is every
\* node on the path from the root to that leaf.
SplitsRoot(d, k) ==
  /\ TargetsFullLeaf(d, k)
  /\ \A i \in 1 .. Len(d.path) - 1 :
        d.m.pages[d.path[i]][NLkeyW(INTARRAYNONLEAFSIZE - 1)] # Sentinel

\* The split propagation of insertEntry(k, ...) after its leaf split s.
PropagateNow(d, s) ==
  Propagate(AtParent(d, s).m, SubSeq(d.path, 1, Len(d.path) - 1), AtParent(d, s).parent,
            s.intKey, s.pageId)

\* The page is a root made by root growth from the split result u of the
\* old root oldRoot.
IsGrownRoot(pg, u, oldRoot) ==
  /\ pg[NLkeyW(0)] = u.intKey
  /\ pg[NLpnoW(0)] = oldRoot
  /\ pg[NLpnoW(1)] = u.newPageId
  /\ \A i \in 1 .. INTARRAYNONLEAFSIZE - 1 : pg[NLkeyW(i)] = Sentinel
  /\ \A i \in 2 .. INTARRAYNONLEAFSIZE : pg[NLpnoW(i)] = INVALID_NUMBER

\* C28: in every state and for every key, insertEntry returns with a new
\* rootPageNum exactly when it has split the old root; the new root is then
\* a newly allocated page holding the key promoted by that split between the
\* old root and its new sibling and sentinels elsewhere; in every other case
\* rootPageNum is as before.
C28_RootGrowth ==
  Alive =>
    \A k \in Keys :
       \E r \in {InsertNow(k)} : \E d \in {DescentNow(k)} :
          r.res = "ok" =>
             IF SplitsRoot(d, k)
             THEN /\ r.root = Len(r.m.pages)
                  /\ r.root > Len(pages)
                  /\ \E s \in {splitLeafNode(d.m, d.dataNode, k, NextRid)} :
                        IsGrownRoot(r.m.pages[r.root], PropagateNow(d, s), rootPageNum)
             ELSE r.root = rootPageNum

\* An insert has grown the tree: the root is a page allocated after the
\* first root, and the first root is its left child.
C28_Witness ==
  /\ AfterInsert
  /\ rootPageNum > 2
  /\ pages[rootPageNum][NLpnoW(0)] = 2

\* PageIds of the children in use of a non-leaf node.
ChildrenOf(pg) == {pg[NLpnoW(i)] : i \in 0 .. UsedKeys(pg)} \cap (1 .. Len(pages))

RECURSIVE NodesFrom(_, _)
\* The pages made as non-leaf nodes that are reached from page id through
\* child pointers in use; fuel bounds the walk.
NodesFrom(id, fuel) ==
  IF id \notin 1 .. Len(pages) \/ fuel = 0 \/ pageKind[id] # "nonleaf" THEN {}
  ELSE {id} \cup UNION {NodesFrom(c, fuel - 1) : c \in ChildrenOf(pages[id])}

\* C29: after construction and after every insertEntry, every non-leaf node
\* reachable from the root has level 1 exactly when its children are leaves
\* and level 0 exactly when they are non-leaf nodes; a node without children
\* (the empty root) has level 1.
C29_LevelMatchesChildren ==
  (lastOp \in {"construct", "insertEntry"} /\ lastRes = "ok") =>
     \A id \in NodesFrom(rootPageNum, Len(pages) + 1) :
        IF ChildrenOf(pages[id]) = {}
        THEN pages[id][NLlevelW] = 1
        ELSE /\ pages[id][NLlevelW] = 1 <=>
                   \A c \in ChildrenOf(pages[id]) : pageKind[c] = "leaf"
             /\ pages[id][NLlevelW] = 0 <=>
                   \A c \in ChildrenOf(pages[id]) : pageKind[c] = "nonleaf"

\* C31: on a tree built by inserts, once startScan has succeeded every
\* scanNext call returns (with a rid or with IndexScanCompleted, never by
\* running on for ever or by reading a page that does not exist), a scan emits
\* no more rids than the file has leaf slots, and repeated scanNext calls
\* reach IndexScanCompleted.
LeafSlots == Len(pages) * INTARRAYLEAFSIZE
ScanNextReturned == lastOp = "scanNext" /\ wasExecuting => lastRes \in {"ok", "IndexScanCompleted"}
ScanStartedOk == lastOp = "startScan" /\ lastRes = "ok"
ScanCompleted == lastOp = "scanNext" /\ lastRes = "IndexScanCompleted"
C31_ScanTerminates ==
  /\ [](ScanNextReturned /\ Len(emitted) <= LeafSlots)
  /\ (ScanStartedOk ~> ScanCompleted)

\* A scan that emitted entries of more than one leaf and then completed at
\* the end of the chain.
C31_Witness ==
  /\ ScanCompleted
  /\ Len(emitted) > INTARRAYLEAFSIZE
  /\ nextEntry = INTARRAYLEAFSIZE
  /\ pages[currentPageNum][LFsibW] = 0

\* C32: in every state in which a scan is executing, a startScan call that
\* ends with BadOpcodes or BadScanrange returns every scan member
\* (scanExecuting, lowValInt, highValInt, lowOp, highOp, currentPageNum,
\* nextEntry) and every pin count as it found them.
C32_RejectedStartKeepsScan ==
  Alive /\ scanExecuting =>
    \A r \in Rejected \cup DescendingCalls :
       \E s \in {StartScanNow(r)} :
          s.res \in {"BadOpcodes", "BadScanrange"} =>
             s.st = ScanMembers /\ s.m.pin = pinCnt

\* C33: while the index is built, the header page's rootPageNo is the
\* builder's rootPageNum after every insertEntry (also after root growth),
\* and an instance that has opened the file has that stored PageId as its
\* rootPageNum.
StoredRoot == pages[headerPageNum][HDrootW]
C33_RootSurvivesReopen ==
  /\ lastOp \in {"bulkLoad", "construct"} /\ ~crashed => StoredRoot = rootPageNum
  /\ lastOp = "open" /\ lastRes = "ok" => rootPageNum = StoredRoot

\* C34: a scan whose lowVal is negative emits no unused leaf slot: every
\* emitted slot holds a key (not the sentinel) and the rid of an inserted
\* entry.
C34_NoSentinelEmitted ==
  lowValInt < 0 =>
     \A n \in 1 .. Len(emitted) :
        emitted[n][2] # Sentinel /\ emitted[n][1] \in InsertedRids

====
